---- MODULE Spec2Model ----
(***************************************************************************)
(* Model of the authenticated pool-controller client                       *)
(* (src/unnamed/part_004, identical in logic to src/piClient.js 1-192):    *)
(* the process-wide session (accessToken / refreshToken), the startup      *)
(* login, the interval timer that starts sendSensorData, and sendToServer  *)
(* with its login / 401-refresh / recursive-retry protocol against the     *)
(* primary and the backup server.                                          *)
(*                                                                         *)
(* Node runs one callback at a time and drains the microtask queue after   *)
(* it, so the code between two network awaits is atomic.  Every action     *)
(* below is therefore one such segment: it starts when a timer fires or a  *)
(* network request of a tick settles and runs until that tick issues its   *)
(* next request or sendSensorData returns.                                 *)
(*                                                                         *)
(* A frame holds the call's program state (pc, serverUrl, retry, bearer,   *)
(* serverResponse, applied, logged) and, for the call Observed, a history  *)
(* of the requests it issued and the answers it got.  All calls run the    *)
(* same code on the same session and are interchangeable, so what holds    *)
(* of the history of Observed holds of every call.                         *)
(*                                                                         *)
(* Two further parts of the repository are modelled beside it.  The rule   *)
(* engine evaluateRules (kbs.js, src/unnamed/part_000 1-130) is an         *)
(* operator, exercised by SpecRules with one call on any snapshot.  The    *)
(* client that applies the rule engine locally before it syncs             *)
(* (src/unnamed/part_000 132-286) is SpecKbs.  Each specification moves    *)
(* its own variables and leaves the others at their initial values.        *)
(***************************************************************************)
EXTENDS Integers, Sequences, FiniteSets, TLC

\* Number of sendSensorData invocations that may be outstanding at once.
MaxTicks == 2
\* Saturation cap of the per-call request counters (history only).
MaxCount == 3

Ticks == 1..MaxTicks

\* The call whose request history is recorded (any one of them).
Observed == CHOOSE t \in Ticks : \A u \in Ticks : t <= u

\* JavaScript null / undefined (every falsy value the code can hold).
Null == "null"

\* Token values the server hands out.
Tokens == {"tokA"}

\* PRIMARY_SERVER and BACKUP_SERVER.
Endpoints == {"primary", "backup"}

\* The relays controlActuators knows (its switch cases).
Registry == {"waterFillPump", "waterDrainPump", "chlorinePump", "filterMotor"}

Act(a, c) == [actuator |-> a, command |-> c]

\* Action lists a server may put in a response.
ServerActionLists ==
    { <<>>,
      <<Act("chlorinePump", TRUE), Act("poolHeater", TRUE)>>,
      <<Act("chlorinePump", FALSE)>> }

\* Bodies of a successful sensor-data response: { actions: [...] }; the
\* member may be absent (hasActions FALSE).  An object is truthy.
Bodies ==
    {[truthy |-> TRUE, hasActions |-> TRUE, actions |-> l] : l \in ServerActionLists}
    \cup {[truthy |-> TRUE, hasActions |-> FALSE, actions |-> <<>>]}

\* The value null where a response body is expected.
NullResp == [truthy |-> FALSE, hasActions |-> FALSE, actions |-> <<>>]

\* controlActuators has not been called by the tick / was called with l.
NotCalled == [called |-> FALSE, actions |-> <<>>]
Called(l) == [called |-> TRUE, actions |-> l]

\* No successful response has been received by the tick.
NoneReceived == [from |-> "none", body |-> NullResp]

\* Outcomes of a sensor-data POST as the catch block tells them apart.
PostKinds == {"ok", "401", "fail"}

VARIABLES
    accessToken,    \* let accessToken
    refreshToken,   \* let refreshToken
    mainPc,         \* position of the init callback
    tick,           \* per outstanding sendSensorData call: its frame
    relay,          \* level last written to each relay
    lastAuthEvent,  \* history: the last settled login / refresh request
    sensorData,     \* evaluateRules: its first argument
    device,         \* evaluateRules: its second argument
    currentTime,    \* evaluateRules: the hour it read from the clock
    output,         \* evaluateRules: the list it returned (actions)
    evaluated,      \* evaluateRules has been called
    previous,       \* history: clock reading and result of the call before
    ruleRelayBefore,\* relay levels when the caller got the list
    ruleRelay,      \* relay levels after the caller's controlActuators(actions)
    kbsTick,        \* rule-engine client: frame of each sendSensorData call
    kbsRelay,       \* rule-engine client: level last written to each relay
    applyCall,      \* controlActuators: one call, its arguments and effect
    uvAccessToken,  \* UV-sensor client: the token variable
    uvPc,           \* UV-sensor client: position of the init callback
    uvTick,         \* UV-sensor client: one frame per sendSensorData call
    uvRelay         \* UV-sensor client: level last written to each relay

\* State of the authenticated client, of one call of the rule engine, and of
\* the client that applies the rule engine locally before it syncs.
authVars == <<accessToken, refreshToken, mainPc, tick, relay, lastAuthEvent>>
ruleVars ==
    <<sensorData, device, currentTime, output, evaluated, previous,
      ruleRelayBefore, ruleRelay>>

kbsVars == <<kbsTick, kbsRelay>>

uvVars == <<uvAccessToken, uvPc, uvTick, uvRelay>>

vars == <<authVars, ruleVars, kbsVars, applyCall, uvVars>>

Inc(n) == IF n < MaxCount THEN n + 1 ELSE n

\* !x of the code, for a token and for a response.
Falsy(x) == x = Null
FalsyResp(r) == ~r.truthy

\* The frame of a sendSensorData call that has not started.
NewFrame ==
    [ pc             |-> "idle",
      serverUrl      |-> "primary",
      retry          |-> FALSE,
      posts          |-> [e \in Endpoints |-> 0],
      refreshes      |-> [e \in Endpoints |-> 0],
      logins         |-> 0,
      loginFailed    |-> [e \in Endpoints |-> FALSE],
      firstResp      |-> [e \in Endpoints |-> "none"],
      outcome        |-> [e \in Endpoints |-> "none"],
      received       |-> NoneReceived,
      bearer         |-> Null,
      serverResponse |-> NullResp,
      applied        |-> NotCalled,
      logged         |-> FALSE ]

----------------------------------------------------------------------------
\* Session updates

\* fetchAuthToken: accessToken after the login request settled.
LoginAccess(ok, at) == IF ok THEN at ELSE Null

\* fetchAuthToken: refreshToken after the login request settled (the catch
\* block does not touch it).
LoginRefresh(ok, rt, old) == IF ok THEN rt ELSE old

\* refreshAccessToken: accessToken after the refresh request settled.
RefreshAccess(ok, at) == IF ok THEN at ELSE Null

\* refreshAccessToken: refreshToken after the refresh request settled (never
\* assigned by the function).
RefreshRefresh(ok, old) == old

----------------------------------------------------------------------------
\* controlActuators

\* One forEach iteration: the switch writes the relay of a known actuator.
WriteRelay(r, a) ==
    IF a.actuator \in Registry
    THEN [r EXCEPT ![a.actuator] = IF a.command THEN 1 ELSE 0]
    ELSE r

\* The actions of a list for which the switch has a case, in order: the
\* writes controlActuators makes.
WritesOf(actions) == SelectSeq(actions, LAMBDA a : a.actuator \in Registry)

RECURSIVE ControlActuators(_, _)
ControlActuators(r, actions) ==
    IF actions = <<>> THEN r
    ELSE ControlActuators(WriteRelay(r, Head(actions)), Tail(actions))

----------------------------------------------------------------------------
\* evaluateRules (kbs.js).  Readings are integers; pH is held in tenths, so
\* that 7.2 is 72.  A comparison with an absent reading (undefined) is false.

\* A reading the snapshot does not carry.
Missing == -1000

\* Thresholds of the rules.
PhLow == 72
PhHigh == 78
ChlorineLow == 1
ChlorineHigh == 3
TurbidityHigh == 50
HeaterBand == 2
NightFrom == 18
NightUntil == 6
ColdTemperature == 15

\* x < y and x > y of the code.
Lt(x, y) == x # Missing /\ y # Missing /\ x < y
Gt(x, y) == x # Missing /\ y # Missing /\ x > y

\* An entry of the returned list; message names the branch that pushed it.
Push(a, c, m) == [actuator |-> a, command |-> c, message |-> m]

\* Variant: the acid branch is taken at pH >= 7.8.
Rule1HighInclusive(s) ==
    IF Lt(s.pH, PhLow) THEN <<Push("chlorinePump", TRUE, "pH is low")>>
    ELSE IF s.pH # Missing /\ s.pH >= PhHigh
    THEN <<Push("chlorinePump", FALSE, "pH is high")>>
    ELSE <<>>

\* Rule 1: pH level.
Rule1(s) ==
    IF Lt(s.pH, PhLow) THEN <<Push("chlorinePump", TRUE, "pH is low")>>
    ELSE IF Gt(s.pH, PhHigh) THEN <<Push("chlorinePump", FALSE, "pH is high")>>
    ELSE <<>>

\* Variant: the chlorine rule stays silent when the pH rule has pushed.
Rule2UnlessRule1(s) ==
    IF Rule1(s) # <<>> THEN <<>>
    ELSE IF Lt(s.chlorineLevel, ChlorineLow)
    THEN <<Push("chlorinePump", TRUE, "Chlorine level is low")>>
    ELSE IF Gt(s.chlorineLevel, ChlorineHigh)
    THEN <<Push("chlorinePump", FALSE, "Chlorine level is high")>>
    ELSE <<>>

\* Rule 2: chlorine level.
Rule2(s) ==
    IF Lt(s.chlorineLevel, ChlorineLow)
    THEN <<Push("chlorinePump", TRUE, "Chlorine level is low")>>
    ELSE IF Gt(s.chlorineLevel, ChlorineHigh)
    THEN <<Push("chlorinePump", FALSE, "Chlorine level is high")>>
    ELSE <<>>

\* Variant: the vacuum entry is pushed before the filter entry.
\* Variant: rule 3 names the filter by the id of its relay.
Rule3FilterMotor(s) ==
    IF Gt(s.turbidity, TurbidityHigh)
    THEN << Push("filterMotor", TRUE, "turbidity high"),
            Push("poolVacuum", TRUE, "turbidity high") >>
    ELSE <<>>

Rule3VacuumFirst(s) ==
    IF Gt(s.turbidity, TurbidityHigh)
    THEN <<Push("poolVacuum", TRUE, "turbidity is high, vacuum"),
           Push("poolFilter", TRUE, "turbidity is high, filter")>>
    ELSE <<>>

\* Rule 3: turbidity.
Rule3(s) ==
    IF Gt(s.turbidity, TurbidityHigh)
    THEN <<Push("poolFilter", TRUE, "turbidity is high, filter"),
           Push("poolVacuum", TRUE, "turbidity is high, vacuum")>>
    ELSE <<>>

\* Variant: the drain test is an `if` of its own, not an `else if`.
Rule4Independent(s, d) ==
    (IF Lt(s.waterLevel, d.minWaterLevel)
     THEN <<Push("waterFillPump", TRUE, "Water level is low")>>
     ELSE <<>>)
    \o (IF Gt(s.waterLevel, d.maxWaterLevel)
        THEN <<Push("waterDrainPump", TRUE, "Water level is high")>>
        ELSE <<>>)

\* Variant: within range both pumps are switched off.
Rule4WithOff(s, d) ==
    IF Lt(s.waterLevel, d.minWaterLevel)
    THEN <<Push("waterFillPump", TRUE, "Water level is low")>>
    ELSE IF Gt(s.waterLevel, d.maxWaterLevel)
    THEN <<Push("waterDrainPump", TRUE, "Water level is high")>>
    ELSE <<Push("waterFillPump", FALSE, "Water level is fine"),
           Push("waterDrainPump", FALSE, "Water level is fine")>>

\* Rule 4: water level.
Rule4(s, d) ==
    IF Lt(s.waterLevel, d.minWaterLevel)
    THEN <<Push("waterFillPump", TRUE, "Water level is low")>>
    ELSE IF Gt(s.waterLevel, d.maxWaterLevel)
    THEN <<Push("waterDrainPump", TRUE, "Water level is high")>>
    ELSE <<>>

\* Variant: the heater is switched off right above the desired temperature.
Rule5NoBand(s, d) ==
    IF Lt(s.temperature, d.desiredTemperature)
    THEN <<Push("poolHeater", TRUE, "Water temperature is low")>>
    ELSE IF Gt(s.temperature, d.desiredTemperature)
    THEN <<Push("poolHeater", FALSE, "Water temperature is high")>>
    ELSE <<>>

\* Variant: the heater is switched on at the desired temperature as well.
Rule5Inclusive(s, d) ==
    IF s.temperature # Missing /\ s.temperature <= d.desiredTemperature
    THEN <<Push("poolHeater", TRUE, "Water temperature is low")>>
    ELSE IF Gt(s.temperature, d.desiredTemperature + HeaterBand)
    THEN <<Push("poolHeater", FALSE, "Water temperature is high")>>
    ELSE <<>>

\* Rule 5: temperature.
Rule5(s, d) ==
    IF Lt(s.temperature, d.desiredTemperature)
    THEN <<Push("poolHeater", TRUE, "Water temperature is low")>>
    ELSE IF Gt(s.temperature, d.desiredTemperature + HeaterBand)
    THEN <<Push("poolHeater", FALSE, "Water temperature is high")>>
    ELSE <<>>

\* Variant: the hours 18 and 6 themselves count as day.
IsNightStrict(h) == h > NightFrom \/ h < NightUntil

\* const isNight = currentTime >= 18 || currentTime <= 6.
IsNight(h) == h >= NightFrom \/ h <= NightUntil

\* Rule 6: pool cover.
Rule6(s, h) ==
    IF IsNight(h) \/ s.weatherForecast = "rainy"
                  \/ Lt(s.temperature, ColdTemperature)
    THEN <<Push("poolCover", TRUE, "Pool cover activated")>>
    ELSE <<Push("poolCover", FALSE, "Pool cover deactivated")>>

\* Rule 7: lights.
Rule7(s, h) ==
    IF IsNight(h) \/ s.poolBeingCleaned
    THEN <<Push("ledLights", TRUE, "activating LED lights")>>
    ELSE <<>>

\* Variant: the chlorine rule is evaluated before the pH rule.
EvaluateRulesChlorineFirst(s, d, h) ==
    Rule2(s) \o Rule1(s) \o Rule3(s) \o Rule4(s, d) \o Rule5(s, d)
             \o Rule6(s, h) \o Rule7(s, h)

\* The list evaluateRules(s, d) returns when the clock reads hour h.
EvaluateRules(s, d, h) ==
    Rule1(s) \o Rule2(s) \o Rule3(s) \o Rule4(s, d) \o Rule5(s, d)
             \o Rule6(s, h) \o Rule7(s, h)

\* Snapshots, configurations and hours the rule engine is called with.
Snapshot(ph, cl, tu, wl, te, wf, cleaned) ==
    [ pH |-> ph, chlorineLevel |-> cl, turbidity |-> tu, waterLevel |-> wl,
      temperature |-> te, weatherForecast |-> wf, poolBeingCleaned |-> cleaned ]

PoolInfo(lo, hi, want) ==
    [minWaterLevel |-> lo, maxWaterLevel |-> hi, desiredTemperature |-> want]

\* The snapshot readSensorData returns when reading the sensors failed.
ZeroSnapshot == Snapshot(0, 0, 0, 0, 0, "unknown", FALSE)

\* The configuration sendSensorData passes.
DefaultDevice == PoolInfo(30, 80, 28)

\* Readings the rule engine is called with.
PhReadings == {Missing, 70, 72, 78, 79}
ChlorineReadings == {0, 1, 2, 3, 4}
TurbidityReadings == {10, 50, 51}
WaterLevels == {0, 30, 50, 80, 100}
Temperatures == {14, 15, 27, 28, 30, 31}
Forecasts == {"sunny", "rainy"}

Devices == {DefaultDevice, PoolInfo(80, 30, 28)}

Hours == {6, 7, 12, 17, 18}

----------------------------------------------------------------------------
\* controlActuators in its three forms, with relay writes that may throw.
\* A command is a JavaScript value, written here as a string: the booleans
\* true and false and the text 'ON'.

\* Longest action list handed to controlActuators.
MaxActions == 3

\* The forms of controlActuators: a switch inside try/catch (part_004,
\* piClient.js, part_000 195-217); a relayMap lookup without try/catch
\* (part_003, part_000 349-363); the relayMap lookup that compares the
\* command with 'ON' (part_002).
ApplyForms == {"switch", "relayMap", "onoff"}

CommandValues == {"true", "false", "ON"}

\* command ? 1 : 0 (only false is falsy among the command values).
LevelTernary(c) == IF c = "false" THEN 0 ELSE 1

\* command === 'ON' ? 1 : 0.
LevelOnString(c) == IF c = "ON" THEN 1 ELSE 0

\* The level a form writes for a command.
LevelOf(form, c) == IF form = "onoff" THEN LevelOnString(c) ELSE LevelTernary(c)

\* Variant: every actuator id is taken for a relay.
IsKnownAny(id) == TRUE

\* The switch has a case / the relayMap has an entry for the id.
IsKnown(id) == id \in Registry

\* Variant: every form catches a failed write inside the loop.
CatchesWriteAll(form) == TRUE

\* The write is inside a try/catch of the forEach callback.
CatchesWrite(form) == form = "switch"

\* Actions handed to controlActuators: relay ids and an id without a relay.
ApplyActions ==
    { Act(a, c) : a \in {"chlorinePump", "waterFillPump"}, c \in CommandValues }
    \cup {Act("poolHeater", "true")}

RECURSIVE ListsUpTo(_)
ListsUpTo(n) ==
    IF n = 0 THEN {<<>>}
    ELSE LET shorter == ListsUpTo(n - 1)
         IN  shorter \cup { Append(l, a) : l \in {x \in shorter : Len(x) = n - 1},
                                           a \in ApplyActions }

\* Effect of a call so far: relay levels, the writes attempted in order, and
\* whether an exception has left the forEach.
ApplyStart(r) == [relay |-> r, writes |-> <<>>, threw |-> FALSE]

\* forEach over the list; failing is the set of relays whose write throws.
RECURSIVE ApplyList(_, _, _, _)
ApplyList(form, failing, st, list) ==
    IF list = <<>> \/ st.threw THEN st
    ELSE LET a     == Head(list)
             level == LevelOf(form, a.command)
             st2   == IF ~IsKnown(a.actuator) THEN st
                      ELSE IF a.actuator \in failing
                      THEN [st EXCEPT
                              !.writes = Append(@, [actuator |-> a.actuator,
                                                    level |-> level, ok |-> FALSE]),
                              !.threw = ~CatchesWrite(form)]
                      ELSE [st EXCEPT
                              !.relay[a.actuator] = level,
                              !.writes = Append(@, [actuator |-> a.actuator,
                                                    level |-> level, ok |-> TRUE])]
         IN  ApplyList(form, failing, st2, Tail(list))

\* Relay levels before a call.
AllOff == [a \in Registry |-> 0]
AllOn == [a \in Registry |-> 1]

\* No call of controlActuators yet.
NotApplied ==
    [ called |-> FALSE, form |-> "switch", actions |-> <<>>, failing |-> {},
      before |-> AllOff, after |-> ApplyStart(AllOff) ]

----------------------------------------------------------------------------
\* sendToServer / sendSensorData, as frame transformers

\* Variant: the token check is missing, every call logs in.
NeedsLoginAlways(tok) == TRUE

\* if (!accessToken) at the top of sendToServer.
NeedsLogin(tok) == Falsy(tok)

\* Variant: every failed POST is refreshed and retried, not only a 401.
ShouldRefreshAnyError(kind) == kind # "ok"

\* The catch block's test for a refresh-and-retry.
ShouldRefresh(kind) == kind = "401"

\* Variant: the recursive call is made without `return`, its result is lost.
RetryReturnDropped(isRetry, v) == IF isRetry THEN NullResp ELSE v

\* `return sendToServer(...)` in the catch block hands the inner result on.
RetryReturn(isRetry, v) == v

\* axios.post(`${serverUrl}/api/devices/sensor-data`) is issued.
IssuePost(f, e, tok) ==
    [f EXCEPT !.pc = "post_wait", !.serverUrl = e,
              !.posts[e] = Inc(@), !.bearer = tok]

\* Entry of sendToServer(sensorData, e) up to its first await; retry tells
\* whether this is the recursive call of the catch block.
EnterSendToServer(f, e, tok, retry) ==
    LET g == [f EXCEPT !.retry = retry]
    IN  IF NeedsLogin(tok)
        THEN [g EXCEPT !.pc = "login_wait", !.serverUrl = e, !.logins = Inc(@)]
        ELSE IssuePost(g, e, tok)

\* Variant: controlActuators(serverResponse?.actions ?? []) without the test.
ActionsToDispatchUnguarded(resp) == Called(resp.actions)

\* The argument sendSensorData passes to controlActuators, if it calls it.
ActionsToDispatch(resp) ==
    IF ~FalsyResp(resp) /\ resp.hasActions THEN Called(resp.actions) ELSE NotCalled

\* Tail of sendSensorData once serverResponse is final.
Finish(f, resp) ==
    [f EXCEPT !.pc = "done", !.serverResponse = resp,
              !.applied = ActionsToDispatch(resp),
              !.logged = ActionsToDispatch(resp).called]

\* Variant: sendSensorData never switches to the backup server.
AfterSendToServerPrimaryOnly(f, e, result, tok) ==
    Finish([f EXCEPT !.outcome[e] = IF FalsyResp(result) THEN "null" ELSE "ok"],
           result)

\* sendSensorData after sendToServer(e) returned result.
AfterSendToServer(f, e, result, tok) ==
    LET g == [f EXCEPT !.outcome[e] = IF FalsyResp(result) THEN "null" ELSE "ok"]
    IN  IF e = "primary" /\ FalsyResp(result)
        THEN EnterSendToServer(g, "backup", tok, FALSE)
        ELSE Finish(g, result)

\* Relays after the segment that produced frame f.
RelayAfter(r, f) ==
    IF f.pc = "done" /\ f.applied.called
    THEN ControlActuators(r, f.applied.actions)
    ELSE r

----------------------------------------------------------------------------
\* A frame without its request history.
Erase(f) ==
    [f EXCEPT !.posts = NewFrame.posts, !.refreshes = NewFrame.refreshes,
              !.logins = NewFrame.logins,
              !.loginFailed = NewFrame.loginFailed, !.firstResp = NewFrame.firstResp,
              !.outcome = NewFrame.outcome, !.received = NewFrame.received]

\* The frames after call t reached frame f.
Store(t, f) == [tick EXCEPT ![t] = IF t = Observed THEN f ELSE Erase(f)]

\* The authenticated client after its relays were created.
AuthInit ==
    /\ accessToken = Null
    /\ refreshToken = Null
    /\ mainPc = "init_login"
    /\ tick = [t \in Ticks |-> NewFrame]
    /\ relay = [a \in Registry |-> 0]
    /\ lastAuthEvent = "none"

\* No earlier call of evaluateRules.
NoCall == [called |-> FALSE, currentTime |-> 0, output |-> <<>>]

\* The rule engine before its call.
RuleInit ==
    /\ sensorData = ZeroSnapshot
    /\ device = DefaultDevice
    /\ currentTime = 0
    /\ output = <<>>
    /\ evaluated = FALSE
    /\ previous = NoCall
    /\ ruleRelayBefore = AllOff
    /\ ruleRelay = AllOff

\* The frame of a call of the rule-engine client that has not started.
KbsNewFrame ==
    [ pc              |-> "idle",
      readFailed      |-> FALSE,
      sensorData      |-> ZeroSnapshot,
      currentTime     |-> 0,
      local           |-> NotCalled,
      relayAfterLocal |-> [a \in Registry |-> 0],
      steps           |-> <<>>,
      result          |-> "none",
      remote          |-> NotCalled ]

\* The rule-engine client after init created its relays.
KbsInit ==
    /\ kbsTick = [t \in Ticks |-> KbsNewFrame]
    /\ kbsRelay = [a \in Registry |-> 0]

\* controlActuators before its call.
ApplyInit == applyCall = NotApplied

\* A sendSensorData call of the UV-sensor client that has not started.
UvNewFrame ==
    [ pc      |-> "idle",
      bearer  |-> Null,
      applied |-> NotCalled,
      logged  |-> FALSE,
      result  |-> "none" ]

\* The init callback has created the relays and awaits fetchAuthToken.
UvInit ==
    /\ uvAccessToken = Null
    /\ uvPc = "login_wait"
    /\ uvTick = [t \in Ticks |-> UvNewFrame]
    /\ uvRelay = [a \in Registry |-> 0]

Init == AuthInit /\ RuleInit /\ KbsInit /\ ApplyInit /\ UvInit

\* A step of the authenticated client leaves everything else alone.
AuthOnly == UNCHANGED <<ruleVars, kbsVars, applyCall, uvVars>>

\* Variant: cleanup returns without process.exit().
ProcessGoneNever(pc) == FALSE

\* The process has ended: process.exit() in cleanup, or an exception that
\* left sendSensorData with nobody to catch it.
ProcessGone(pc) == pc \in {"exited", "crashed"}

\* No callback runs in a process that has ended.
Alive == ~ProcessGone(mainPc)

\* The tail of sendSensorData runs in the segment that produced its result:
\* no other callback runs between the last response and the return.
NoneReturning == \A t \in Ticks : tick[t].pc # "done"

\* sendSensorData returns; its frame is gone.
Return(t) ==
    /\ Alive
    /\ tick[t].pc = "done"
    /\ tick' = [tick EXCEPT ![t] = NewFrame]
    /\ UNCHANGED <<accessToken, refreshToken, mainPc, relay, lastAuthEvent>>
    /\ AuthOnly

\* init callback: `await fetchAuthToken()` settles, then setInterval.
StartupLogin(ok, at, rt) ==
    /\ mainPc = "init_login"
    /\ accessToken' = LoginAccess(ok, at)
    /\ refreshToken' = LoginRefresh(ok, rt, refreshToken)
    /\ lastAuthEvent' = IF ok THEN "login_ok" ELSE "login_fail"
    /\ mainPc' = "running"
    /\ UNCHANGED <<tick, relay>>
    /\ AuthOnly

\* The interval timer calls sendSensorData.
TimerFire(t) ==
    /\ mainPc = "running"
    /\ tick[t].pc = "idle"
    /\ NoneReturning
    /\ tick' = Store(t, EnterSendToServer(NewFrame, "primary", accessToken, FALSE))
    /\ UNCHANGED <<accessToken, refreshToken, mainPc, relay, lastAuthEvent>>
    /\ AuthOnly

\* The interval timer calls sendSensorData and readSensorData throws (a pin
\* read fails).  sendSensorData has no try/catch: its promise is rejected
\* and nobody handles it, which ends the process (fatal) or only prints a
\* warning, depending on the runtime.
TimerFireReadThrows(t, fatal) ==
    /\ mainPc = "running"
    /\ tick[t].pc = "idle"
    /\ NoneReturning
    /\ mainPc' = IF fatal THEN "crashed" ELSE mainPc
    /\ UNCHANGED <<accessToken, refreshToken, tick, relay, lastAuthEvent>>
    /\ AuthOnly

\* SIGINT / SIGTERM: cleanup writes LOW to the four relays and exits.  The
\* handler is a callback of its own, so it runs between two segments.
Cleanup ==
    /\ Alive
    /\ NoneReturning
    /\ relay' = [a \in Registry |-> 0]
    /\ mainPc' = "exited"
    /\ UNCHANGED <<accessToken, refreshToken, tick, lastAuthEvent>>
    /\ AuthOnly

\* The login request of sendToServer settles.
LoginResponse(t, ok, at, rt) ==
    /\ Alive
    /\ tick[t].pc = "login_wait"
    /\ NoneReturning
    /\ LET e  == tick[t].serverUrl
           f  == [tick[t] EXCEPT !.loginFailed[e] = ~ok]
           a2 == LoginAccess(ok, at)
           f2 == IF Falsy(a2)
                 THEN AfterSendToServer(f, e, NullResp, a2)
                 ELSE IssuePost(f, e, a2)
       IN  /\ accessToken' = a2
           /\ refreshToken' = LoginRefresh(ok, rt, refreshToken)
           /\ lastAuthEvent' = IF ok THEN "login_ok" ELSE "login_fail"
           /\ tick' = Store(t, f2)
           /\ relay' = RelayAfter(relay, f2)
    /\ UNCHANGED mainPc
    /\ AuthOnly

\* The sensor-data POST settles.
PostResponse(t, kind, body) ==
    /\ Alive
    /\ tick[t].pc = "post_wait"
    /\ NoneReturning
    /\ LET f0 == tick[t]
           e  == f0.serverUrl
           f  == [f0 EXCEPT !.firstResp[e] = IF @ = "none" THEN kind ELSE @,
                            !.received = IF kind = "ok"
                                         THEN [from |-> e, body |-> body]
                                         ELSE @]
           f2 == IF kind = "ok"
                 THEN AfterSendToServer(f, e, RetryReturn(f.retry, body),
                                        accessToken)
                 ELSE IF ShouldRefresh(kind)
                 THEN [f EXCEPT !.pc = "refresh_wait", !.refreshes[e] = Inc(@)]
                 ELSE AfterSendToServer(f, e, RetryReturn(f.retry, NullResp),
                                        accessToken)
       IN  /\ tick' = Store(t, f2)
           /\ relay' = RelayAfter(relay, f2)
    /\ UNCHANGED <<accessToken, refreshToken, mainPc, lastAuthEvent>>
    /\ AuthOnly

\* The refresh request of the catch block settles.
RefreshResponse(t, ok, at) ==
    /\ Alive
    /\ tick[t].pc = "refresh_wait"
    /\ NoneReturning
    /\ LET f  == tick[t]
           e  == f.serverUrl
           a2 == RefreshAccess(ok, at)
           f2 == IF ~Falsy(a2)
                 THEN EnterSendToServer(f, e, a2, TRUE)
                 ELSE AfterSendToServer(f, e, RetryReturn(f.retry, NullResp), a2)
       IN  /\ accessToken' = a2
           /\ refreshToken' = RefreshRefresh(ok, refreshToken)
           /\ lastAuthEvent' = IF ok THEN "refresh_ok" ELSE "refresh_fail"
           /\ tick' = Store(t, f2)
           /\ relay' = RelayAfter(relay, f2)
    /\ UNCHANGED mainPc
    /\ AuthOnly

Next ==
    \/ \E t \in Ticks : Return(t)
    \/ \E ok \in BOOLEAN, at \in Tokens, rt \in Tokens : StartupLogin(ok, at, rt)
    \/ \E t \in Ticks : TimerFire(t)
    \/ \E t \in Ticks, fatal \in BOOLEAN : TimerFireReadThrows(t, fatal)
    \/ Cleanup
    \/ \E t \in Ticks, ok \in BOOLEAN, at \in Tokens, rt \in Tokens :
          LoginResponse(t, ok, at, rt)
    \/ \E t \in Ticks, kind \in PostKinds, body \in Bodies :
          PostResponse(t, kind, body)
    \/ \E t \in Ticks, ok \in BOOLEAN, at \in Tokens : RefreshResponse(t, ok, at)

Spec == Init /\ [][Next]_vars

\* The server settles every request, and a settled request's continuation
\* runs: strong fairness, since a continuation is only disabled for the
\* instant another call is returning.
Fairness ==
    \A t \in Ticks :
        /\ SF_vars(\E ok \in BOOLEAN, at \in Tokens, rt \in Tokens :
                      LoginResponse(t, ok, at, rt))
        /\ SF_vars(\E kind \in PostKinds, body \in Bodies :
                      PostResponse(t, kind, body))
        /\ SF_vars(\E ok \in BOOLEAN, at \in Tokens : RefreshResponse(t, ok, at))
        /\ WF_vars(Return(t))

FairSpec == Spec /\ Fairness

----------------------------------------------------------------------------
\* The rule engine on its own: one call with any snapshot, configuration and
\* clock reading.

\* const actions = evaluateRules(s, d); controlActuators(actions), with the
\* relays at the levels r before.
CallEvaluateRules(s, d, h, r) ==
    /\ ~evaluated
    /\ sensorData' = s
    /\ device' = d
    /\ currentTime' = h
    /\ output' = EvaluateRules(s, d, h)
    /\ evaluated' = TRUE
    /\ ruleRelayBefore' = r
    /\ ruleRelay' = ControlActuators(r, EvaluateRules(s, d, h))
    /\ UNCHANGED previous
    /\ UNCHANGED <<authVars, kbsVars, applyCall, uvVars>>

\* One call per behaviour, with readings from the sensors or with the
\* snapshot of a failed read.
RulesNext ==
    /\ ~evaluated
    /\ \/ \E ph \in PhReadings, cl \in ChlorineReadings,
             tu \in TurbidityReadings, wl \in WaterLevels, te \in Temperatures,
             wf \in Forecasts, cleaned \in BOOLEAN, d \in Devices, h \in Hours,
             r \in {AllOff, AllOn} :
             CallEvaluateRules(Snapshot(ph, cl, tu, wl, te, wf, cleaned), d, h, r)
       \/ \E d \in Devices, h \in Hours, r \in {AllOff, AllOn} :
             CallEvaluateRules(ZeroSnapshot, d, h, r)

SpecRules == Init /\ [][RulesNext]_vars

\* The caller calls evaluateRules once more with the same two arguments; the
\* function reads the clock again.
CallAgain(h) ==
    /\ evaluated
    /\ ~previous.called
    /\ previous' = [called |-> TRUE, currentTime |-> currentTime, output |-> output]
    /\ currentTime' = h
    /\ output' = EvaluateRules(sensorData, device, h)
    /\ ruleRelay' = ControlActuators(ruleRelay, EvaluateRules(sensorData, device, h))
    /\ UNCHANGED <<sensorData, device, evaluated, ruleRelayBefore>>
    /\ UNCHANGED <<authVars, kbsVars, applyCall, uvVars>>

RulesTwiceNext == RulesNext \/ \E h \in Hours : CallAgain(h)

SpecRulesTwice == Init /\ [][RulesTwiceNext]_vars

----------------------------------------------------------------------------
\* The rule-engine client (src/unnamed/part_000 132-286): every tick reads the
\* sensors, evaluates the rules, applies and logs the local actions, then
\* posts the snapshot to the one server and hands the server's actions to
\* sendActionsToActuators.  The whole tick is inside one try/catch.

\* Snapshots the try block of readSensorData builds: simulated pH and
\* temperature, the water switch, fixed placeholders.
ReadSnapshots ==
    { Snapshot(ph, 2, 30, wl, te, "sunny", FALSE) :
        ph \in {70, 75, 80}, wl \in {0, 100}, te \in {20, 29} }

\* Variant: no fallback, the readings are used as they are.
ReadSensorDataNoFallback(ok, snap) == snap

\* readSensorData: the readings, or the fallback of its catch block when a
\* pin read threw.
ReadSensorData(ok, snap) == IF ok THEN snap ELSE ZeroSnapshot

\* Clock readings during a tick.
TickHours == {12, 18}

\* Outcomes of the POST: a response or a rejection.
KbsPostKinds == {"ok", "fail"}

\* Variant: the local actions are held back until the server has answered.
LocalDispatchDeferred(acts) == NotCalled

\* controlActuators(actions) on the list evaluateRules returned.
LocalDispatch(acts) == Called(acts)

\* Variant: the log line is not written before the POST.
StepsBeforePostLogLater == <<"readSensorData", "evaluateRules", "controlActuators">>

\* The calls of a tick up to its await, in program order.
StepsBeforePost ==
    <<"readSensorData", "evaluateRules", "controlActuators", "logToCSV">>

\* The calls of a tick after the POST settled; dispatch tells whether
\* res.data.actions was truthy.
StepsAfterResponse(dispatch) ==
    IF dispatch THEN <<"response", "sendActionsToActuators">> ELSE <<"response">>

\* A frame of which only the position is kept.
KbsErase(f) == [KbsNewFrame EXCEPT !.pc = f.pc]

KbsStore(t, f) == [kbsTick EXCEPT ![t] = IF t = Observed THEN f ELSE KbsErase(f)]

KbsNoneReturning == \A t \in Ticks : kbsTick[t].pc # "done"

\* The interval timer calls sendSensorData; it runs up to `await axios.post`.
KbsTimerFire(t, ok, read, h) ==
    /\ kbsTick[t].pc = "idle"
    /\ KbsNoneReturning
    /\ LET snap  == ReadSensorData(ok, read)
           acts  == EvaluateRules(snap, DefaultDevice, h)
           local == LocalDispatch(acts)
           r2    == IF local.called
                    THEN ControlActuators(kbsRelay, local.actions)
                    ELSE kbsRelay
           f     == [KbsNewFrame EXCEPT
                        !.pc = "post_wait", !.readFailed = ~ok,
                        !.sensorData = snap,
                        !.currentTime = h, !.local = local,
                        !.relayAfterLocal = r2,
                        !.steps = StepsBeforePost \o <<"axios.post">>]
       IN  /\ kbsRelay' = r2
           /\ kbsTick' = KbsStore(t, f)
    /\ UNCHANGED <<authVars, ruleVars, applyCall, uvVars>>

\* The POST settles.  A rejection, and a response without data (reading
\* res.data.actions throws), end in the catch block.
KbsPostResponse(t, kind, body) ==
    /\ kbsTick[t].pc = "post_wait"
    /\ KbsNoneReturning
    /\ LET f        == kbsTick[t]
           threw    == kind = "ok" /\ FalsyResp(body)
           dispatch == kind = "ok" /\ ~FalsyResp(body) /\ body.hasActions
           f2       == [f EXCEPT
                           !.pc = "done",
                           !.result = IF threw THEN "threw" ELSE kind,
                           !.remote = IF dispatch THEN Called(body.actions)
                                      ELSE NotCalled,
                           !.steps = @ \o StepsAfterResponse(dispatch)]
       IN  kbsTick' = KbsStore(t, f2)
    /\ UNCHANGED kbsRelay
    /\ UNCHANGED <<authVars, ruleVars, applyCall, uvVars>>

\* sendSensorData returns.
KbsReturn(t) ==
    /\ kbsTick[t].pc = "done"
    /\ kbsTick' = [kbsTick EXCEPT ![t] = KbsNewFrame]
    /\ UNCHANGED kbsRelay
    /\ UNCHANGED <<authVars, ruleVars, applyCall, uvVars>>

KbsNext ==
    \/ \E t \in Ticks, ok \in BOOLEAN, read \in ReadSnapshots, h \in TickHours :
          KbsTimerFire(t, ok, read, h)
    \/ \E t \in Ticks, kind \in KbsPostKinds, body \in Bodies \cup {NullResp} :
          KbsPostResponse(t, kind, body)
    \/ \E t \in Ticks : KbsReturn(t)

SpecKbs == Init /\ [][KbsNext]_vars

----------------------------------------------------------------------------
\* controlActuators on its own: one call of one form on any list, with at
\* most one relay whose write throws.

CallControlActuators(form, list, failing, before) ==
    /\ ~applyCall.called
    /\ applyCall' = [ called |-> TRUE, form |-> form, actions |-> list,
                      failing |-> failing, before |-> before,
                      after |-> ApplyList(form, failing, ApplyStart(before), list) ]
    /\ UNCHANGED <<authVars, ruleVars, kbsVars, uvVars>>

ApplyNext ==
    /\ ~applyCall.called
    /\ \E form \in ApplyForms, list \in ListsUpTo(MaxActions),
          failing \in {{}, {"chlorinePump"}, {"waterFillPump"}},
          before \in {AllOff, AllOn} :
          CallControlActuators(form, list, failing, before)

SpecApply == Init /\ [][ApplyNext]_vars

----------------------------------------------------------------------------
\* The UV-sensor client: one login at start, then a POST to the primary
\* server on every timer tick.

UvOthers == UNCHANGED <<authVars, ruleVars, kbsVars, applyCall>>

\* The header value sendSensorData builds: the token variable as it is.
UvBearer(tok) == tok

\* fetchAuthToken settles and the init callback goes on: it starts the
\* interval timer and registers the signal handlers.
UvLoginResponse(ok, at) ==
    /\ uvPc = "login_wait"
    /\ uvAccessToken' = LoginAccess(ok, at)
    /\ uvPc' = "running"
    /\ UNCHANGED <<uvTick, uvRelay>>
    /\ UvOthers

\* The interval timer calls sendSensorData; it runs up to `await axios.post`.
UvTimerFire(t) ==
    /\ uvPc = "running"
    /\ uvTick[t].pc = "idle"
    /\ uvTick' = [uvTick EXCEPT ![t] =
                     [UvNewFrame EXCEPT !.pc = "post_wait",
                                        !.bearer = UvBearer(uvAccessToken)]]
    /\ UNCHANGED <<uvAccessToken, uvPc, uvRelay>>
    /\ UvOthers

\* The POST settles.  A rejection, and a response without an action list
\* (actions.forEach throws), end in the catch block.
UvPostResponse(t, kind, body) ==
    /\ uvPc = "running"
    /\ uvTick[t].pc = "post_wait"
    /\ LET good == kind = "ok" /\ ~FalsyResp(body) /\ body.hasActions
       IN  /\ uvTick' = [uvTick EXCEPT ![t] =
                 [@ EXCEPT !.pc = "done",
                           !.applied = IF good THEN Called(body.actions)
                                       ELSE NotCalled,
                           !.logged = good,
                           !.result = IF good THEN "ok"
                                      ELSE IF kind = "ok" THEN "threw"
                                      ELSE kind]]
           /\ uvRelay' = IF good THEN ControlActuators(uvRelay, body.actions)
                         ELSE uvRelay
    /\ UNCHANGED <<uvAccessToken, uvPc>>
    /\ UvOthers

\* sendSensorData returns.
UvReturn(t) ==
    /\ uvPc = "running"
    /\ uvTick[t].pc = "done"
    /\ uvTick' = [uvTick EXCEPT ![t] = UvNewFrame]
    /\ UNCHANGED <<uvAccessToken, uvPc, uvRelay>>
    /\ UvOthers

\* SIGINT / SIGTERM: cleanup writes LOW to the four relays and exits.
UvCleanup ==
    /\ uvPc = "running"
    /\ uvRelay' = [a \in Registry |-> 0]
    /\ uvPc' = "exited"
    /\ UNCHANGED <<uvAccessToken, uvTick>>
    /\ UvOthers

UvNext ==
    \/ \E ok \in BOOLEAN, at \in Tokens \cup {Null} : UvLoginResponse(ok, at)
    \/ \E t \in Ticks : UvTimerFire(t)
    \/ \E t \in Ticks, kind \in PostKinds, body \in Bodies \cup {NullResp} :
          UvPostResponse(t, kind, body)
    \/ \E t \in Ticks : UvReturn(t)
    \/ UvCleanup

SpecUv == Init /\ [][UvNext]_vars

----------------------------------------------------------------------------
\* Properties

Waiting(t) == tick[t].pc \in {"login_wait", "post_wait", "refresh_wait"}
Done(t) == tick[t].pc = "done"

\* The frame of the observed call, with its history.
obs == tick[Observed]

\* C1: one call of sendSensorData issues at most 4 sensor-data POSTs
\* (primary, primary retry, backup, backup retry), whatever the servers
\* answer.
C1_AtMostFourPosts == obs.posts["primary"] + obs.posts["backup"] <= 4

\* C2: a 401 leads to exactly one refresh and one retry on the same
\* endpoint; a failing retry (a second 401 included) abandons the endpoint:
\* no second refresh and no third request per endpoint in one call.
C2_OneRefreshOneRetry ==
    \A e \in Endpoints :
        /\ obs.refreshes[e] <= 1
        /\ obs.posts[e] <= 2

\* C3: every call of sendSensorData that is waiting for a response
\* eventually returns, whatever the servers answer (unless the process ends
\* first).
C3_SendReturns == \A t \in Ticks : Waiting(t) ~> (Done(t) \/ ~Alive)

\* C4: if the primary's answer is a failure other than 401 and the backup's
\* answer is a success, the call returns the backup's body, the primary was
\* requested exactly once and no refresh request was issued.
C4_Failover ==
    (Done(Observed) /\ obs.firstResp["primary"] = "fail"
                    /\ obs.firstResp["backup"] = "ok")
    => /\ obs.received.from = "backup"
       /\ obs.serverResponse = obs.received.body
       /\ obs.posts["primary"] = 1
       /\ obs.refreshes["primary"] = 0
       /\ obs.refreshes["backup"] = 0

C4_Witness ==
    /\ Done(Observed)
    /\ obs.firstResp["primary"] = "fail"
    /\ obs.firstResp["backup"] = "ok"
    /\ obs.serverResponse.actions # <<>>

\* C5: a successful sensor-data response is what the call returns, action
\* list empty or absent included; the backup is only contacted after
\* sendToServer(primary) returned null, never after a primary success.
C5_SuccessReturned ==
    /\ (Done(Observed) /\ obs.received.from # "none")
       => /\ obs.serverResponse = obs.received.body
          /\ obs.outcome[obs.received.from] = "ok"
    /\ (obs.serverUrl = "backup")
       => /\ obs.outcome["primary"] = "null"
          /\ obs.received.from # "primary"

C5_Witness ==
    /\ Done(Observed)
    /\ obs.received.from = "primary"
    /\ obs.posts["primary"] = 2
    /\ ~obs.serverResponse.hasActions
    /\ obs.posts["backup"] = 0

\* C6: if sendToServer returned null for the primary and for the backup,
\* serverResponse is null and the call hands no action to controlActuators
\* (and writes no log line).
C6_BothFailNull ==
    (Done(Observed) /\ obs.outcome["primary"] = "null"
                    /\ obs.outcome["backup"] = "null")
    => /\ ~obs.serverResponse.truthy
       /\ ~obs.applied.called
       /\ ~obs.logged

C6_Witness ==
    /\ Done(Observed)
    /\ obs.outcome["primary"] = "null"
    /\ obs.outcome["backup"] = "null"
    /\ obs.posts["primary"] > 0
    /\ obs.posts["backup"] > 0

\* C7: after a refresh request failed, accessToken and refreshToken are both
\* null (so that the token check of the next sendToServer, which tests
\* accessToken, logs in anew).
C7_RefreshFailClearsSession ==
    lastAuthEvent = "refresh_fail"
    => (accessToken = Null /\ refreshToken = Null)

\* C8: after a login request failed, accessToken and refreshToken are both
\* null, also when an earlier login had stored a refresh token.
C8_LoginFailClearsSession ==
    lastAuthEvent = "login_fail"
    => (accessToken = Null /\ refreshToken = Null)

\* C31: a call that finds no access token and whose login request fails
\* logs in once more for the backup; when that login fails as well the call
\* has issued exactly two login requests and no sensor-data request to
\* either server, and its serverResponse is null.
C31_TwoLoginsNoPost ==
    /\ obs.loginFailed["primary"]
       => /\ obs.logins = 2
          /\ obs.posts["primary"] = 0
          /\ obs.serverUrl = "backup"
    /\ (obs.loginFailed["primary"] /\ obs.loginFailed["backup"])
       => /\ Done(Observed)
          /\ obs.logins = 2
          /\ obs.posts = [e \in Endpoints |-> 0]
          /\ obs.serverResponse = NullResp
          /\ ~obs.applied.called

C31_Witness ==
    /\ Done(Observed)
    /\ obs.loginFailed["primary"]
    /\ obs.loginFailed["backup"]
    /\ obs.logins = 2
    /\ accessToken = Null

\* A call issues a login request in a step that takes it to login_wait from
\* another position, or from the primary's login to the backup's.
IssuesLogin(t) ==
    /\ tick'[t].pc = "login_wait"
    /\ tick[t].pc # "login_wait" \/ tick'[t].serverUrl # tick[t].serverUrl

\* C9: sendToServer issues a login request only when the accessToken it
\* tests is null: in every step in which a call issues a login request, the
\* session holds no access token at that point.
C9_LoginOnlyWithoutToken ==
    [][\A t \in Ticks : IssuesLogin(t) => accessToken' = Null]_vars

C9_Witness ==
    \E t \in Ticks :
        /\ tick[t].pc = "login_wait"
        /\ tick[t].serverUrl = "backup"
        /\ accessToken = Null
        /\ lastAuthEvent = "refresh_fail"

\* C10: at most one refresh request is in flight at any time, across all
\* interleavings of the calls the interval timer starts.
C10_OneRefreshInFlight ==
    Cardinality({t \in Ticks : tick[t].pc = "refresh_wait"}) <= 1

\* C11: at most one call of sendSensorData is in flight: a timer firing
\* while an earlier call has not returned starts no new call.
C11_OneTickInFlight ==
    Cardinality({t \in Ticks : tick[t].pc # "idle"}) <= 1

\* The frame of the observed call of the rule-engine client.
kobs == kbsTick[Observed]

\* The calls of a tick of the rule-engine client in the order the code makes
\* them.
TickOrder ==
    <<"readSensorData", "evaluateRules", "controlActuators", "logToCSV",
      "axios.post", "response", "sendActionsToActuators">>

C13_ExceptionEndsOnlyTick == mainPc # "crashed"

C30_PostCarriesToken ==
    \A t \in Ticks : uvTick[t].pc = "post_wait" => ~Falsy(uvTick[t].bearer)

----------------------------------------------------------------------------
\* Properties of the rule engine

\* The entries of a list for one actuator, as {actuator, command} pairs.
CommandsFor(l, a) ==
    LET sel == SelectSeq(l, LAMBDA x : x.actuator = a)
    IN  [i \in 1..Len(sel) |-> Act(sel[i].actuator, sel[i].command)]

\* A list as {actuator, command} pairs.
Commands(l) == [i \in 1..Len(l) |-> Act(l[i].actuator, l[i].command)]

\* C16: evaluateRules is deterministic in its arguments: two calls with the
\* same snapshot and configuration return equal lists, no state other than
\* the arguments (the hour is one of them) influences the result.
C16_SameArgumentsSameOutput == previous.called => output = previous.output

\* C17: for every snapshot with pH below 7.2 the returned list contains the
\* chlorinePump ON entry of rule 1, and that entry is the first of the list.
C17_LowPhFirst ==
    (evaluated /\ sensorData.pH # Missing /\ sensorData.pH < 72)
    => /\ Len(output) >= 1
       /\ output[1] = Push("chlorinePump", TRUE, "pH is low")

C17_Witness ==
    /\ evaluated
    /\ sensorData.pH = 70
    /\ sensorData.chlorineLevel = 0
    /\ Len(CommandsFor(output, "chlorinePump")) = 2

\* C18: for a pH from 7.2 to 7.8, bounds included, and for a missing pH,
\* rule 1 pushes nothing; the chlorinePump entries of the list are then those
\* of rule 2, fixed by chlorineLevel alone (ON below 1, OFF above 3, none
\* otherwise).
C18_InRangePhSilent ==
    (evaluated /\ (sensorData.pH = Missing
                   \/ (sensorData.pH >= 72 /\ sensorData.pH <= 78)))
    => /\ \A i \in 1..Len(output) :
             output[i].message \notin {"pH is low", "pH is high"}
       /\ CommandsFor(output, "chlorinePump") =
             IF sensorData.chlorineLevel < 1
             THEN <<Act("chlorinePump", TRUE)>>
             ELSE IF sensorData.chlorineLevel > 3
             THEN <<Act("chlorinePump", FALSE)>>
             ELSE <<>>

C18_Witness ==
    /\ evaluated
    /\ sensorData.pH = 78
    /\ sensorData.chlorineLevel = 4
    /\ CommandsFor(output, "chlorinePump") = <<Act("chlorinePump", FALSE)>>

\* C19: every returned list contains exactly one poolCover entry; it is ON
\* exactly when the hour is >= 18 or <= 6, or the forecast is rainy, or the
\* temperature is below 15 (so 18 and 6 are night, 12 is not).
C19_OnePoolCover ==
    evaluated
    => LET cover == CommandsFor(output, "poolCover")
       IN  /\ Len(cover) = 1
           /\ cover[1].command =
                 (\/ currentTime >= 18
                  \/ currentTime <= 6
                  \/ sensorData.weatherForecast = "rainy"
                  \/ sensorData.temperature < 15)

C19_Witness ==
    /\ evaluated
    /\ currentTime = 18
    /\ sensorData.weatherForecast = "sunny"
    /\ sensorData.temperature = 28
    /\ CommandsFor(output, "poolCover") = <<Act("poolCover", TRUE)>>

\* C20: snapshot {pH 7.0, chlorineLevel 2, turbidity 10, waterLevel 50,
\* temperature 28, sunny, not being cleaned}, configuration {30, 80, 28} and
\* hour 12 give exactly [chlorinePump ON, poolCover OFF].
C20_EndToEnd ==
    (/\ evaluated
     /\ sensorData = Snapshot(70, 2, 10, 50, 28, "sunny", FALSE)
     /\ device = PoolInfo(30, 80, 28)
     /\ currentTime = 12)
    => Commands(output) = <<Act("chlorinePump", TRUE), Act("poolCover", FALSE)>>

C20_Witness ==
    /\ evaluated
    /\ sensorData = Snapshot(70, 2, 10, 50, 28, "sunny", FALSE)
    /\ device = PoolInfo(30, 80, 28)
    /\ currentTime = 12
    /\ Len(output) = 2

\* Rules 1 and 2 disagree about the chlorine pump for snapshot s.
Disagree(s) ==
    \/ (s.pH # Missing /\ s.pH < 72 /\ s.chlorineLevel > 3)
    \/ (s.pH # Missing /\ s.pH > 78 /\ s.chlorineLevel < 1)

\* C24: when rules 1 and 2 disagree, both chlorinePump entries are in the
\* list, rule 1's before rule 2's, and after controlActuators has processed
\* the list the chlorine pump relay holds rule 2's command; for every relay
\* the level after the call is the command of the last entry that targets it.
C24_LastWriteWins ==
    evaluated
    => /\ Disagree(sensorData)
          => LET cp == SelectSeq(output, LAMBDA x : x.actuator = "chlorinePump")
             IN  /\ Len(cp) = 2
                 /\ cp[1].message \in {"pH is low", "pH is high"}
                 /\ cp[2].message \in {"Chlorine level is low",
                                       "Chlorine level is high"}
                 /\ cp[1].command = (sensorData.pH < 72)
                 /\ cp[2].command = (sensorData.chlorineLevel < 1)
                 /\ ruleRelay["chlorinePump"] =
                       (IF sensorData.chlorineLevel < 1 THEN 1 ELSE 0)
       /\ \A a \in Registry :
             LET sel == SelectSeq(output, LAMBDA x : x.actuator = a)
             IN  sel # <<>>
                 => ruleRelay[a] = (IF sel[Len(sel)].command THEN 1 ELSE 0)

C24_Witness ==
    /\ evaluated
    /\ sensorData.pH = 79
    /\ sensorData.chlorineLevel = 0
    /\ ruleRelayBefore = AllOff
    /\ ruleRelay["chlorinePump"] = 1
    /\ Len(CommandsFor(output, "chlorinePump")) = 2

\* C25: no returned list holds both a waterFillPump and a waterDrainPump
\* entry, also when minWaterLevel > maxWaterLevel; waterFillPump ON is there
\* exactly when waterLevel < minWaterLevel, waterDrainPump ON exactly when
\* waterLevel is not below minWaterLevel and is above maxWaterLevel.
C25_FillDrainExclusive ==
    evaluated
    => LET fill  == CommandsFor(output, "waterFillPump")
           drain == CommandsFor(output, "waterDrainPump")
           low   == sensorData.waterLevel < device.minWaterLevel
           high  == sensorData.waterLevel > device.maxWaterLevel
       IN  /\ ~(fill # <<>> /\ drain # <<>>)
           /\ fill = IF low THEN <<Act("waterFillPump", TRUE)>> ELSE <<>>
           /\ drain = IF ~low /\ high THEN <<Act("waterDrainPump", TRUE)>>
                      ELSE <<>>

C25_Witness ==
    /\ evaluated
    /\ device.minWaterLevel > device.maxWaterLevel
    /\ sensorData.waterLevel < device.minWaterLevel
    /\ sensorData.waterLevel > device.maxWaterLevel
    /\ CommandsFor(output, "waterFillPump") = <<Act("waterFillPump", TRUE)>>
    /\ CommandsFor(output, "waterDrainPump") = <<>>

\* C26: poolHeater ON is in the list exactly when temperature <
\* desiredTemperature, poolHeater OFF exactly when temperature >
\* desiredTemperature + 2, no poolHeater entry for a temperature in the closed
\* band between them; never two poolHeater entries.
C26_HeaterBand ==
    evaluated
    => LET heater == CommandsFor(output, "poolHeater")
           t      == sensorData.temperature
           want   == device.desiredTemperature
       IN  /\ Len(heater) <= 1
           /\ heater = IF t < want THEN <<Act("poolHeater", TRUE)>>
                       ELSE IF t > want + 2 THEN <<Act("poolHeater", FALSE)>>
                       ELSE <<>>

C26_Witness ==
    /\ evaluated
    /\ sensorData.temperature = device.desiredTemperature + 2
    /\ CommandsFor(output, "poolHeater") = <<>>
    /\ Len(output) > 1

\* The place of an entry in the order of the rules.
PlaceOf(x) ==
    CASE x.actuator = "chlorinePump" /\ x.message \in {"pH is low", "pH is high"} -> 1
      [] x.actuator = "chlorinePump" -> 2
      [] x.actuator = "poolFilter" -> 3
      [] x.actuator = "poolVacuum" -> 4
      [] x.actuator \in {"waterFillPump", "waterDrainPump"} -> 5
      [] x.actuator = "poolHeater" -> 6
      [] x.actuator = "poolCover" -> 7
      [] x.actuator = "ledLights" -> 8
      [] OTHER -> 0

\* C27: the list is the concatenation of the rules' entries in rule order:
\* chlorinePump (rule 1), chlorinePump (rule 2), poolFilter, poolVacuum,
\* waterFillPump or waterDrainPump, poolHeater, poolCover, ledLights; it has 1
\* to 8 entries, and whether a rule's entry is there depends on that rule's
\* readings only.
C27_RuleOrder ==
    evaluated
    => LET has(k) == \E i \in 1..Len(output) : PlaceOf(output[i]) = k
           s      == sensorData
       IN  /\ Len(output) >= 1
           /\ Len(output) <= 8
           /\ \A i \in 1..Len(output) : PlaceOf(output[i]) \in 1..8
           /\ \A i \in 1..(Len(output) - 1) :
                 PlaceOf(output[i]) < PlaceOf(output[i + 1])
           /\ has(1) <=> (s.pH # Missing /\ (s.pH < 72 \/ s.pH > 78))
           /\ has(2) <=> (s.chlorineLevel < 1 \/ s.chlorineLevel > 3)
           /\ has(3) <=> s.turbidity > 50
           /\ has(4) <=> s.turbidity > 50
           /\ has(5) <=> (\/ s.waterLevel < device.minWaterLevel
                          \/ s.waterLevel > device.maxWaterLevel)
           /\ has(6) <=> (\/ s.temperature < device.desiredTemperature
                          \/ s.temperature > device.desiredTemperature + 2)
           /\ has(7)
           /\ has(8) <=> (currentTime >= 18 \/ currentTime <= 6
                                            \/ s.poolBeingCleaned)

C27_Witness ==
    /\ evaluated
    /\ Len(output) = 8
    /\ output[3].actuator = "poolFilter"
    /\ output[5].actuator = "waterDrainPump"

\* C28: no OFF entry is ever returned for poolFilter, poolVacuum,
\* waterFillPump, waterDrainPump or ledLights; poolFilter and poolVacuum come
\* together, as ON, exactly when turbidity > 50, ledLights as ON exactly when
\* it is night or the pool is being cleaned.  Hence applying the list never
\* takes a water fill or drain relay that is on to off.
C28_NoOffCommands ==
    evaluated
    => /\ \A i \in 1..Len(output) :
             output[i].actuator \in {"poolFilter", "poolVacuum", "waterFillPump",
                                     "waterDrainPump", "ledLights"}
             => output[i].command
       /\ CommandsFor(output, "poolFilter") =
             IF sensorData.turbidity > 50 THEN <<Act("poolFilter", TRUE)>>
             ELSE <<>>
       /\ CommandsFor(output, "poolVacuum") =
             IF sensorData.turbidity > 50 THEN <<Act("poolVacuum", TRUE)>>
             ELSE <<>>
       /\ CommandsFor(output, "ledLights") =
             IF currentTime >= 18 \/ currentTime <= 6 \/ sensorData.poolBeingCleaned
             THEN <<Act("ledLights", TRUE)>>
             ELSE <<>>
       /\ \A a \in {"waterFillPump", "waterDrainPump"} :
             ruleRelayBefore[a] = 1 => ruleRelay[a] = 1

C28_Witness ==
    /\ evaluated
    /\ ruleRelayBefore = AllOn
    /\ sensorData.waterLevel = 50
    /\ device = DefaultDevice
    /\ sensorData.turbidity = 51
    /\ currentTime = 12
    /\ ~sensorData.poolBeingCleaned
    /\ ruleRelay["waterFillPump"] = 1
    /\ ruleRelay["waterDrainPump"] = 1

\* The relays the rule engine's actions can reach.
RuleRelays == {"chlorinePump", "waterFillPump", "waterDrainPump"}

\* C32: evaluateRules never emits a filterMotor action; controlActuators on
\* its output writes only the relays of chlorinePump, waterFillPump and
\* waterDrainPump, leaves the filterMotor relay as it was and writes nothing
\* for poolFilter, poolVacuum, poolHeater, poolCover and ledLights.
C32_RuleWritesThreeRelays ==
    evaluated
    => /\ \A i \in 1..Len(output) : output[i].actuator # "filterMotor"
       /\ \A i \in 1..Len(WritesOf(output)) :
             WritesOf(output)[i].actuator \in RuleRelays
       /\ ruleRelay["filterMotor"] = ruleRelayBefore["filterMotor"]
       /\ DOMAIN ruleRelay = Registry
       /\ \A a \in Registry :
             ruleRelay[a] # ruleRelayBefore[a] => a \in RuleRelays
       /\ \A a \in RuleRelays :
             LET c == CommandsFor(output, a)
             IN  ruleRelay[a] = IF c = <<>> THEN ruleRelayBefore[a]
                                ELSE IF c[Len(c)].command THEN 1 ELSE 0

C32_Witness ==
    /\ evaluated
    /\ ruleRelayBefore = AllOn
    /\ ruleRelay["filterMotor"] = 1
    /\ ruleRelay["chlorinePump"] = 0
    /\ \E i \in 1..Len(output) : output[i].actuator = "poolFilter"
    /\ \E i \in 1..Len(output) :
          output[i].actuator = "poolHeater" /\ ~output[i].command
    /\ \E i \in 1..Len(output) : output[i].actuator = "ledLights"
    /\ Len(WritesOf(output)) = 2

----------------------------------------------------------------------------
\* Properties of controlActuators

\* The entries of a list that name a relay of the registry.
RegistryEntries(l) == SelectSeq(l, LAMBDA x : x.actuator \in Registry)

\* C21: controlActuators writes the requested boolean command: when every
\* write succeeds, the relay of a registry actuator holds 1 after an action
\* with command true and 0 after one with command false (the last action for
\* that relay counts), in every form of the function.
C21_WritesRequestedCommand ==
    (applyCall.called /\ applyCall.failing = {})
    => \A i \in 1..Len(applyCall.actions) :
          LET a == applyCall.actions[i]
          IN  (/\ a.actuator \in Registry
               /\ a.command \in {"true", "false"}
               /\ \A j \in (i + 1)..Len(applyCall.actions) :
                     applyCall.actions[j].actuator # a.actuator)
              => applyCall.after.relay[a.actuator] =
                    (IF a.command = "true" THEN 1 ELSE 0)

\* C22: an action whose actuator is not in the registry is ignored: it
\* causes no write and no error, and the call has the effect it has on the
\* list without that action.
C22_UnknownIgnored ==
    applyCall.called
    => /\ applyCall.after =
             ApplyList(applyCall.form, applyCall.failing,
                       ApplyStart(applyCall.before),
                       RegistryEntries(applyCall.actions))
       /\ \A i \in 1..Len(applyCall.after.writes) :
             applyCall.after.writes[i].actuator \in Registry
       /\ \A a \in Registry :
             (\A i \in 1..Len(applyCall.actions) :
                 applyCall.actions[i].actuator # a)
             => applyCall.after.relay[a] = applyCall.before[a]
       /\ applyCall.after.threw
             => \E i \in 1..Len(applyCall.actions) :
                   applyCall.actions[i].actuator \in applyCall.failing

C22_Witness ==
    /\ applyCall.called
    /\ applyCall.before = AllOff
    /\ Len(applyCall.actions) >= 2
    /\ applyCall.actions[1].actuator = "poolHeater"
    /\ applyCall.actions[2].actuator = "chlorinePump"
    /\ applyCall.after.relay["chlorinePump"] = 1
    /\ Len(applyCall.after.writes) = Len(applyCall.actions) - 1

\* C23: a failed relay write is caught inside controlActuators and every
\* later action of the list is still attempted: the call attempts one write
\* per registry action and lets no exception out.
C23_LaterActionsAttempted ==
    applyCall.called
    => /\ Len(applyCall.after.writes) = Len(RegistryEntries(applyCall.actions))
       /\ ~applyCall.after.threw

====
